---- MODULE Spec2Model ----
(***************************************************************************)
(* Model of the Linux-syscall compatibility layer of WenyiOS:              *)
(*   api/src/imp/resources.rs  sys_prlimit64, sys_setrlimit, sys_getrlimit *)
(*   api/src/imp/fs/stat.rs    the stat family, sys_access, sys_faccessat2 *)
(* Tasks run syscalls concurrently; the per-process resource-limit table   *)
(* is the only shared mutable state and is guarded by a per-process lock.  *)
(***************************************************************************)
EXTENDS Integers, FiniteSets, Sequences, TLC

(* ---------------------------- bounds ----------------------------------- *)
\* number of concurrently running tasks; task t belongs to process ProcOf(t)
NumTasks == 2
\* number of live processes; pid NumProcs + 1 is a pid that does not resolve
NumProcs == 1
\* number of resource-limit kinds (RLIM_NLIMITS scaled down)
NumKinds == 1
\* largest limit value; MaxLim stands for RLIM_INFINITY, the default
MaxLim == 2

Tasks == 1..NumTasks
Pids == 1..NumProcs
Kinds == 0..(NumKinds - 1)
\* the `resource` argument as passed by user space: -1 and NumKinds are out of range
Resources == (-1)..NumKinds
\* the `pid` argument: 0 is the calling process, NumProcs + 1 resolves to nothing
PidArgs == 0..(NumProcs + 1)
LimVals == 0..MaxLim

ProcOf(t) == ((t - 1) % NumProcs) + 1

(* ---------------------------- values ----------------------------------- *)
\* ResourceLimit { soft, hard }
RL(s, h) == [soft |-> s, hard |-> h]
\* every value user space can put into a ResourceLimit, soft > hard included
AnyLimit == {RL(s, h) : s \in LimVals, h \in LimVals}
\* "no value": an output slot nothing was written to, a log nothing was recorded in
NoLimit == RL(-1, -1)
\* a user pointer is null, points to unmapped memory, or points to accessible memory
PtrStates == {"null", "unmapped", "ok"}

VARIABLES
    limits,     \* limits[p][k]: the stored bound of process p and kind k
    lock,       \* lock[p]: the task holding p's resource_limits lock, 0 when free
    pc,         \* pc[t]: where task t is inside its syscall
    call,       \* call[t]: the syscall task t runs, its arguments and target
    old_limit,  \* old_limit[t]: the local `old_limit` of do_setrlimit
    ret,        \* ret[t]: the result of the last call of t ("none" while running)
    out,        \* out[t]: what the call wrote to its user output slot
    lastset,    \* lastset[p][k]: the value of the latest set on (p, k), accepted or not
    lastok,     \* lastok[p][k]: the value of the latest accepted set on (p, k)
    fs          \* the last file-system syscall: its arguments and its outcome

vars == <<limits, lock, pc, call, old_limit, ret, out, lastset, lastok, fs>>

(* ------------------- starry_core / ptr collaborators ------------------- *)
\* ResourceLimitType::try_from(resource as u32): Ok for 0 <= resource < RLIM_NLIMITS
ResourceLimitType_try_from(resource) == resource \in Kinds

\* ResourceLimits::set: refuses (returns false) when soft > hard, else stores
ResourceLimits_set(limit) == ~(limit.soft > limit.hard)

\* get_process(pid): the process, or 0 for the ESRCH failure
get_process(pid) == IF pid \in Pids THEN pid ELSE 0

\* UserPtr::is_null
is_null(p) == p = "null"

\* UserPtr::get_as_mut / UserConstPtr::get_as_ref: Ok only for accessible memory
ptr_ok(p) == p = "ok"

(* ------------------------- resources.rs -------------------------------- *)
\* `if pid == 0 { current process } else { get_process(pid)? }`
target_proc(t, pid) == IF pid = 0 THEN ProcOf(t) ELSE get_process(pid)

\* a lock() that does not exclude: every task gets in
LockFree_none(p) == TRUE

\* resource_limits.lock(): the lock can be taken when no task holds it
LockFree(p) == lock[p] = 0

\* do_setrlimit that drops the result of limits.set and keeps the new value
do_setrlimit_set_unchecked(old, stored, limit) ==
    IF limit.hard > old.hard
    THEN [ret |-> "EPERM", stored |-> stored]
    ELSE [ret |-> "OK", stored |-> limit]

\* do_setrlimit with the two tests in the other order
do_setrlimit_einval_first(old, stored, limit) ==
    IF limit.soft > limit.hard
    THEN [ret |-> "EINVAL", stored |-> stored]
    ELSE IF limit.hard > old.hard
         THEN [ret |-> "EPERM", stored |-> stored]
         ELSE [ret |-> "OK", stored |-> limit]

\* do_setrlimit lines 65-71 with the lock held: old is the bound read at line 64,
\* stored the bound in the table now; yields the result and the bound afterwards
do_setrlimit_locked(old, stored, limit) ==
    IF limit.hard > old.hard
    THEN [ret |-> "EPERM", stored |-> stored]
    ELSE IF ~ResourceLimits_set(limit)
         THEN [ret |-> "EINVAL", stored |-> stored]
         ELSE [ret |-> "OK", stored |-> limit]

\* the two stores with the fields crossed
write_old_swapped(old_value) == [soft |-> old_value.hard, hard |-> old_value.soft]

\* what sys_getrlimit / sys_prlimit64 store into the output slot from old_value
write_old(old_value) == [soft |-> old_value.soft, hard |-> old_value.hard]

\* call[t] while no limit syscall is running
NoCall == [sys |-> "none", proc |-> 0, kind |-> 0, new |-> NoLimit,
           newp |-> "null", oldp |-> "null"]

\* a kernel panic halts the machine: nothing runs afterwards
Panicked == \E t \in Tasks : ret[t] = "PANIC"

\* task t returns r from its syscall
Return(t, r) ==
    /\ pc' = [pc EXCEPT ![t] = "idle"]
    /\ ret' = [ret EXCEPT ![t] = r]
    /\ call' = [call EXCEPT ![t] = NoCall]

\* task t goes on inside its syscall, at step `at`, with arguments and target c
Goto(t, at, c) ==
    /\ pc' = [pc EXCEPT ![t] = at]
    /\ ret' = [ret EXCEPT ![t] = "none"]
    /\ call' = [call EXCEPT ![t] = c]

\* sys_setrlimit, lines 34-35, and do_setrlimit lines 56-60: up to the lock
sys_setrlimit(t) ==
    /\ pc[t] = "idle"
    /\ out' = [out EXCEPT ![t] = NoLimit]
    /\ \E resource \in Resources, p \in PtrStates :
       \E v \in IF ResourceLimitType_try_from(resource) /\ ptr_ok(p) THEN AnyLimit ELSE {NoLimit} :
           IF ~ResourceLimitType_try_from(resource) THEN Return(t, "EINVAL")
           ELSE IF ~ptr_ok(p) THEN Return(t, "EFAULT")
           ELSE Goto(t, "set_lock", [sys |-> "setrlimit", proc |-> target_proc(t, 0),
                                     kind |-> resource, new |-> v,
                                     newp |-> p, oldp |-> "null"])
    /\ UNCHANGED <<limits, lock, old_limit, lastset, lastok, fs>>

\* do_setrlimit lines 63-64: take the lock of the target, read the stored bound
SetLock(t) ==
    /\ pc[t] = "set_lock"
    /\ LockFree(call[t].proc)
    /\ lock' = [lock EXCEPT ![call[t].proc] = t]
    /\ old_limit' = [old_limit EXCEPT ![t] = limits[call[t].proc][call[t].kind]]
    /\ pc' = [pc EXCEPT ![t] = "set_store"]
    /\ UNCHANGED <<limits, call, ret, out, lastset, lastok, fs>>

\* do_setrlimit lines 65-72: compare, replace, drop the lock, return
SetStore(t) ==
    LET p == call[t].proc
        k == call[t].kind
        r == do_setrlimit_locked(old_limit[t], limits[p][k], call[t].new)
    IN  /\ pc[t] = "set_store"
        /\ limits' = [limits EXCEPT ![p][k] = r.stored]
        /\ lock' = [lock EXCEPT ![p] = 0]
        /\ old_limit' = [old_limit EXCEPT ![t] = NoLimit]
        /\ lastset' = [lastset EXCEPT ![p][k] = call[t].new]
        /\ lastok' = IF r.ret = "OK" THEN [lastok EXCEPT ![p][k] = call[t].new] ELSE lastok
        /\ Return(t, r.ret)
        /\ UNCHANGED <<out, fs>>

\* sys_getrlimit line 42 and do_getrlimit lines 74-78: up to the lock
sys_getrlimit(t) ==
    /\ pc[t] = "idle"
    /\ out' = [out EXCEPT ![t] = NoLimit]
    /\ \E resource \in Resources, p \in PtrStates :
           IF ~ResourceLimitType_try_from(resource) THEN Return(t, "EINVAL")
           ELSE Goto(t, "get_read", [sys |-> "getrlimit", proc |-> target_proc(t, 0),
                                     kind |-> resource, new |-> NoLimit,
                                     newp |-> "null", oldp |-> p])
    /\ UNCHANGED <<limits, lock, old_limit, lastset, lastok, fs>>

\* do_getrlimit lines 81-82 (lock, copy the bound, unlock) and sys_getrlimit
\* lines 44-48: the copy goes to the user slot if the slot is accessible
GetRead(t) ==
    LET old_value == limits[call[t].proc][call[t].kind] IN
    /\ pc[t] = "get_read"
    /\ LockFree(call[t].proc)
    /\ IF ptr_ok(call[t].oldp)
       THEN /\ out' = [out EXCEPT ![t] = write_old(old_value)]
            /\ Return(t, "OK")
       ELSE /\ out' = out
            /\ Return(t, "EFAULT")
    /\ UNCHANGED <<limits, lock, old_limit, lastset, lastok, fs>>

\* sys_prlimit64 lines 17-19 (and 23-25 when no old value is asked for): the
\* resource check, the null tests, and the pid lookup of the first do_ call
sys_prlimit64(t) ==
    /\ pc[t] = "idle"
    /\ out' = [out EXCEPT ![t] = NoLimit]
    /\ \E pid \in PidArgs, resource \in Resources, np \in PtrStates, op \in PtrStates :
       \E v \in IF ResourceLimitType_try_from(resource) /\ is_null(op) /\ ptr_ok(np)
                THEN AnyLimit ELSE {NoLimit} :
           LET c == [sys |-> "prlimit64", proc |-> target_proc(t, pid),
                     kind |-> resource, new |-> v, newp |-> np, oldp |-> op]
           IN  IF ~ResourceLimitType_try_from(resource) THEN Return(t, "EINVAL")
               ELSE IF ~is_null(op)
                    THEN IF c.proc = 0 THEN Return(t, "ESRCH")
                         ELSE Goto(t, "pr_get", c)
               ELSE IF is_null(np) THEN Return(t, "OK")
               ELSE IF ~ptr_ok(np) THEN Return(t, "EFAULT")
               ELSE IF c.proc = 0 THEN Return(t, "ESRCH")
               ELSE Goto(t, "set_lock", c)
    /\ UNCHANGED <<limits, lock, old_limit, lastset, lastok, fs>>

\* sys_prlimit64 lines 19-25: do_getrlimit under the lock, the two stores through
\* old_limit.get_as_mut().unwrap(), then the read of the new value
PrGet(t) ==
    LET old_value == limits[call[t].proc][call[t].kind] IN
    /\ pc[t] = "pr_get"
    /\ LockFree(call[t].proc)
    /\ IF ~ptr_ok(call[t].oldp)
       THEN /\ out' = out
            /\ Return(t, "PANIC")
       ELSE /\ out' = [out EXCEPT ![t] = write_old(old_value)]
            /\ IF is_null(call[t].newp) THEN Return(t, "OK")
               ELSE IF ~ptr_ok(call[t].newp) THEN Return(t, "EFAULT")
               ELSE \E v \in AnyLimit :
                        Goto(t, "set_lock", [call[t] EXCEPT !.new = v])
    /\ UNCHANGED <<limits, lock, old_limit, lastset, lastok, fs>>

(* ----------------------------- fs/stat.rs ------------------------------- *)
\* linux_raw_sys::general constants used by stat.rs
AT_EMPTY_PATH == 4096
AT_FDCWD == -100
R_OK == 4
W_OK == 2
X_OK == 1

\* path strings user space passes: empty, a regular file, a directory, a missing
\* entry, and a relative name
PathStrs == {"", "/f", "/d", "/none", "f"}
\* a path argument: a null pointer, an unmapped one, bytes that are not valid
\* text, or a readable string
PathArgs == {[state |-> st, str |-> ""] : st \in {"null", "unmapped", "badutf"}}
            \cup {[state |-> "ok", str |-> str] : str \in PathStrs}
\* descriptors: the cwd sentinel, an open file (3), an open directory (4), a closed one (9)
Fds == {AT_FDCWD, 3, 4, 9}
\* flag words: nothing, AT_SYMLINK_NOFOLLOW (256), AT_EMPTY_PATH, both
FlagArgs == {0, 256, AT_EMPTY_PATH, AT_EMPTY_PATH + 256}
\* access modes: F_OK, each combination of R_OK/W_OK/X_OK, and 8, a bit outside them
ModeArgs == 0..8
\* owner permission bits of the target, as the backend reports them (rwx as 4/2/1)
Perms == 0..7

\* mode & bit != 0, for a single-bit mask
has_bit(word, bit) == (word \div bit) % 2 = 1

\* the file system the backend serves: "/" and "/d" are directories, "/f" and
\* "/d/f" are regular files, nothing else exists
entry_kind(p) ==
    CASE p \in {"/", "/d"} -> "dir"
      [] p \in {"/f", "/d/f"} -> "file"
      [] OTHER -> "none"

\* the descriptor table: get_file_like(fd) is the open object, or EBADF
fd_path(fd) == CASE fd = 3 -> "/f" [] fd = 4 -> "/d" [] OTHER -> "none"

is_absolute(str) == str \in {"/f", "/d", "/none"}
join_path(base, rel) ==
    IF rel = "" THEN base
    ELSE IF base = "/" THEN "/" \o rel ELSE base \o "/" \o rel

\* UserConstPtr::get_as_str: the error of reading the string, "OK" when readable
get_as_str(path) ==
    CASE path.state = "ok" -> "OK"
      [] path.state = "badutf" -> "EILSEQ"
      [] OTHER -> "EFAULT"

\* nullable!(path.get_as_str()): a null pointer is None, not an error
nullable_get_as_str(path) == IF is_null(path.state) THEN "OK" ELSE get_as_str(path)

\* handle_file_path / resolve_path_with_parent: the canonical path, or the error
handle_file_path(dirfd, str) ==
    IF is_absolute(str) THEN [err |-> "OK", path |-> str]
    ELSE IF dirfd = AT_FDCWD THEN [err |-> "OK", path |-> join_path("/", str)]
    ELSE IF fd_path(dirfd) = "none" THEN [err |-> "EBADF", path |-> ""]
    ELSE IF entry_kind(fd_path(dirfd)) # "dir" THEN [err |-> "ENOTDIR", path |-> ""]
    ELSE [err |-> "OK", path |-> join_path(fd_path(dirfd), str)]

\* Kstat of an entry, and its conversion into the `stat` or `statx` layout
Kstat(p) == [kind |-> entry_kind(p), of |-> p]
into(layout, kstat) == [layout |-> layout, kind |-> kstat.kind, of |-> kstat.of]

\* the outcome of a call: its return value, whether and what it stored through
\* the output address, whether it looked up a descriptor, resolved or opened a
\* path, and the permission bits it obtained
O0 == [ret |-> "OK", wrote |-> FALSE, val |-> "none", looked |-> FALSE,
       resolved |-> FALSE, opened |-> FALSE]
Err(o, e) == [o EXCEPT !.ret = e]

\* stat_at_path, lines 15-25: open as file, fall back to directory on IsADirectory
stat_at_path(p) ==
    CASE entry_kind(p) = "file" -> [err |-> "OK", kstat |-> Kstat(p)]
      [] entry_kind(p) = "dir" -> [err |-> "OK", kstat |-> Kstat(p)]
      [] OTHER -> [err |-> "ENOENT", kstat |-> Kstat(p)]

\* a store through the raw address, without get_as_mut()?
store_unchecked(o, buf, value) == [o EXCEPT !.wrote = TRUE, !.val = value]

\* `*buf.get_as_mut()? = value`: the value is computed first, the address is
\* validated next, the store comes last
store(o, buf, value) ==
    IF ~ptr_ok(buf) THEN Err(o, "EFAULT")
    ELSE [o EXCEPT !.wrote = TRUE, !.val = value]

\* sys_stat, lines 30-37
sys_stat_res(path, statbuf) ==
    IF get_as_str(path) # "OK" THEN Err(O0, get_as_str(path))
    ELSE LET st == stat_at_path(path.str)
             o == [O0 EXCEPT !.resolved = TRUE, !.opened = st.err = "OK"]
         IN  IF st.err # "OK" THEN Err(o, st.err)
             ELSE store(o, statbuf, into("stat", st.kstat))

\* sys_fstat, lines 42-46
sys_fstat_res(fd, statbuf) ==
    LET o == [O0 EXCEPT !.looked = TRUE]
    IN  IF fd_path(fd) = "none" THEN Err(o, "EBADF")
        ELSE store(o, statbuf, into("stat", Kstat(fd_path(fd))))

\* sys_lstat, lines 51-54
sys_lstat_res(path, statbuf) == sys_stat_res(path, statbuf)

\* the branching with the descriptor looked up before the flag is tested
stat_at_lookup_first(layout, dirfd, path, buf, flags) ==
    IF nullable_get_as_str(path) # "OK" THEN Err(O0, nullable_get_as_str(path))
    ELSE IF is_null(path.state) \/ path.str = ""
    THEN LET o == [O0 EXCEPT !.looked = TRUE]
         IN  IF fd_path(dirfd) = "none" THEN Err(o, "EBADF")
             ELSE IF ~has_bit(flags, AT_EMPTY_PATH) THEN Err(o, "ENOENT")
             ELSE store(o, buf, into(layout, Kstat(fd_path(dirfd))))
    ELSE LET hp == handle_file_path(dirfd, path.str)
             o == [O0 EXCEPT !.resolved = TRUE, !.looked = ~is_absolute(path.str) /\ dirfd # AT_FDCWD]
         IN  IF hp.err # "OK" THEN Err(o, hp.err)
             ELSE LET st == stat_at_path(hp.path)
                  IN  IF st.err # "OK" THEN Err(o, st.err)
                      ELSE store([o EXCEPT !.opened = TRUE], buf, into(layout, st.kstat))

\* the branching shared by sys_fstatat (lines 62-79) and sys_statx (lines 116-133)
stat_at_res(layout, dirfd, path, buf, flags) ==
    IF nullable_get_as_str(path) # "OK" THEN Err(O0, nullable_get_as_str(path))
    ELSE IF is_null(path.state) \/ path.str = ""
    THEN IF ~has_bit(flags, AT_EMPTY_PATH) THEN Err(O0, "ENOENT")
         ELSE LET o == [O0 EXCEPT !.looked = TRUE]
              IN  IF fd_path(dirfd) = "none" THEN Err(o, "EBADF")
                  ELSE store(o, buf, into(layout, Kstat(fd_path(dirfd))))
    ELSE LET hp == handle_file_path(dirfd, path.str)
             o == [O0 EXCEPT !.resolved = TRUE, !.looked = ~is_absolute(path.str) /\ dirfd # AT_FDCWD]
         IN  IF hp.err # "OK" THEN Err(o, hp.err)
             ELSE LET st == stat_at_path(hp.path)
                  IN  IF st.err # "OK" THEN Err(o, st.err)
                      ELSE store([o EXCEPT !.opened = TRUE], buf, into(layout, st.kstat))

sys_fstatat_res(dirfd, path, statbuf, flags) == stat_at_res("stat", dirfd, path, statbuf, flags)
sys_statx_res(dirfd, path, flags, statxbuf) == stat_at_res("statx", dirfd, path, statxbuf, flags)

\* sys_statfs, lines 192-214: the placeholder record once the path resolves
sys_statfs_res(path, buf) ==
    IF get_as_str(path) # "OK" THEN Err(O0, get_as_str(path))
    ELSE LET hp == handle_file_path(-1, path.str)
             o == [O0 EXCEPT !.resolved = TRUE, !.looked = ~is_absolute(path.str)]
         IN  IF hp.err # "OK" THEN Err(o, hp.err)
             ELSE store(o, buf, [layout |-> "statfs", kind |-> "ext4", of |-> hp.path])

\* lines 247-256: `let mut access = true;` and the three `access |= ...`
access_of(mode, perm) ==
    LET a0 == TRUE
        a1 == IF has_bit(mode, R_OK) THEN a0 \/ has_bit(perm, 4) ELSE a0
        a2 == IF has_bit(mode, W_OK) THEN a1 \/ has_bit(perm, 2) ELSE a1
        a3 == IF has_bit(mode, X_OK) THEN a2 \/ has_bit(perm, 1) ELSE a2
    IN  a3

\* sys_faccessat2 with F_OK treated as an existence check: mode 0 tested after the open
sys_faccessat2_mode_late(dirfd, path, mode, flags, perm) ==
    IF nullable_get_as_str(path) # "OK" THEN Err(O0, nullable_get_as_str(path))
    ELSE IF mode > 7 THEN Err(O0, "EINVAL")
    ELSE IF is_null(path.state) THEN Err(O0, "PANIC")
    ELSE LET hp == handle_file_path(dirfd, path.str)
             o == [O0 EXCEPT !.resolved = TRUE, !.looked = ~is_absolute(path.str) /\ dirfd # AT_FDCWD]
         IN  IF hp.err # "OK" THEN Err(o, hp.err)
             ELSE IF entry_kind(hp.path) = "none" THEN Err(o, "ENOENT")
             ELSE [o EXCEPT !.opened = TRUE]

\* sys_faccessat2, lines 223-263; perm is what get_attr()?.perm() yields for the target
sys_faccessat2_res(dirfd, path, mode, flags, perm) ==
    IF nullable_get_as_str(path) # "OK" THEN Err(O0, nullable_get_as_str(path))
    ELSE IF mode = 0 THEN O0
    ELSE IF mode > 7 THEN Err(O0, "EINVAL")
    ELSE IF is_null(path.state) THEN Err(O0, "PANIC")
    ELSE LET hp == handle_file_path(dirfd, path.str)
             o == [O0 EXCEPT !.resolved = TRUE, !.looked = ~is_absolute(path.str) /\ dirfd # AT_FDCWD]
         IN  IF hp.err # "OK" THEN Err(o, hp.err)
             ELSE IF entry_kind(hp.path) = "none" THEN Err(o, "ENOENT")
             ELSE IF access_of(mode, perm) THEN [o EXCEPT !.opened = TRUE]
             ELSE Err([o EXCEPT !.opened = TRUE], "EACCES")

\* sys_access, lines 216-221
sys_access_res(path, mode, perm) == sys_faccessat2_res(AT_FDCWD, path, mode, 0, perm)

\* the arguments of a file-system call; the ones a call does not take stay at these.
\* perm is the backend's answer for the target, drawn only when the call opens it
A0 == [sys |-> "none", path |-> [state |-> "null", str |-> ""], buf |-> "null",
       dirfd |-> AT_FDCWD, flags |-> 0, mode |-> 0, perm |-> 0]
\* fs after a call with arguments a and outcome o
Done(a, o) ==
    /\ fs' = [args |-> a, res |-> o]
    /\ UNCHANGED <<limits, lock, pc, call, old_limit, ret, out, lastset, lastok>>

sys_stat ==
    \E path \in PathArgs, statbuf \in PtrStates :
        Done([A0 EXCEPT !.sys = "stat", !.path = path, !.buf = statbuf],
             sys_stat_res(path, statbuf))

sys_fstat ==
    \E fd \in Fds, statbuf \in PtrStates :
        Done([A0 EXCEPT !.sys = "fstat", !.dirfd = fd, !.buf = statbuf],
             sys_fstat_res(fd, statbuf))

sys_lstat ==
    \E path \in PathArgs, statbuf \in PtrStates :
        Done([A0 EXCEPT !.sys = "lstat", !.path = path, !.buf = statbuf],
             sys_lstat_res(path, statbuf))

sys_fstatat ==
    \E dirfd \in Fds, path \in PathArgs, statbuf \in PtrStates, flags \in FlagArgs :
        Done([A0 EXCEPT !.sys = "fstatat", !.dirfd = dirfd, !.path = path,
                        !.buf = statbuf, !.flags = flags],
             sys_fstatat_res(dirfd, path, statbuf, flags))

sys_statx ==
    \E dirfd \in Fds, path \in PathArgs, statxbuf \in PtrStates, flags \in FlagArgs :
        Done([A0 EXCEPT !.sys = "statx", !.dirfd = dirfd, !.path = path,
                        !.buf = statxbuf, !.flags = flags],
             sys_statx_res(dirfd, path, flags, statxbuf))

sys_statfs ==
    \E path \in PathArgs, buf \in PtrStates :
        Done([A0 EXCEPT !.sys = "statfs", !.path = path, !.buf = buf],
             sys_statfs_res(path, buf))

sys_access ==
    \E path \in PathArgs, mode \in ModeArgs :
    \E perm \in IF sys_access_res(path, mode, 0).opened THEN Perms ELSE {0} :
        Done([A0 EXCEPT !.sys = "access", !.path = path, !.mode = mode, !.perm = perm],
             sys_access_res(path, mode, perm))

sys_faccessat2 ==
    \E dirfd \in Fds, path \in PathArgs, mode \in ModeArgs, flags \in {0, 256} :
    \E perm \in IF sys_faccessat2_res(dirfd, path, mode, flags, 0).opened THEN Perms ELSE {0} :
        Done([A0 EXCEPT !.sys = "faccessat2", !.dirfd = dirfd, !.path = path,
                        !.mode = mode, !.flags = flags, !.perm = perm],
             sys_faccessat2_res(dirfd, path, mode, flags, perm))

\* the state after boot: every bound at its default, no call running
Init ==
    /\ limits = [p \in Pids |-> [k \in Kinds |-> RL(MaxLim, MaxLim)]]
    /\ lock = [p \in Pids |-> 0]
    /\ pc = [t \in Tasks |-> "idle"]
    /\ call = [t \in Tasks |-> NoCall]
    /\ old_limit = [t \in Tasks |-> NoLimit]
    /\ ret = [t \in Tasks |-> "none"]
    /\ out = [t \in Tasks |-> NoLimit]
    /\ lastset = [p \in Pids |-> [k \in Kinds |-> NoLimit]]
    /\ lastok = [p \in Pids |-> [k \in Kinds |-> NoLimit]]
    /\ fs = [args |-> A0, res |-> O0]

NextRl ==
    /\ ~Panicked
    /\ \E t \in Tasks :
        \/ sys_setrlimit(t)
        \/ SetLock(t)
        \/ SetStore(t)
        \/ sys_getrlimit(t)
        \/ GetRead(t)
        \/ sys_prlimit64(t)
        \/ PrGet(t)

\* the file-system calls; a panic in one of them halts the machine as well
NextFs ==
    /\ fs.res.ret # "PANIC"
    /\ \/ sys_stat
       \/ sys_fstat
       \/ sys_lstat
       \/ sys_fstatat
       \/ sys_statx
       \/ sys_statfs
       \/ sys_access
       \/ sys_faccessat2

\* the resource-limit calls of concurrent tasks
Spec == Init /\ [][NextRl]_vars
\* the file-system calls
SpecFs == Init /\ [][NextFs]_vars
(* ------------------------------ claims --------------------------------- *)
\* the target and the argument of the set task t is about to finish
SetTarget(t) == limits[call[t].proc][call[t].kind]
SetStep(t) == pc[t] = "set_store" /\ pc'[t] = "idle"

\* C1: for every process and every kind the stored bound has soft <= hard, in
\* every reachable state, whatever calls the tasks interleave.
C1_SoftLeHard ==
    \A p \in Pids, k \in Kinds : limits[p][k].soft <= limits[p][k].hard
\* a bound was replaced, and the latest set on it had soft > hard and was refused
C1_Witness ==
    \E p \in Pids, k \in Kinds :
        /\ lastok[p][k] # NoLimit
        /\ limits[p][k] = lastok[p][k]
        /\ limits[p][k] # RL(MaxLim, MaxLim)
        /\ lastset[p][k].soft > lastset[p][k].hard

\* C2: a set whose new hard bound is above the hard bound stored when the set
\* runs returns EPERM and leaves the table as it was, other tasks setting the
\* same limit or not.
C2_HardRaiseRejected ==
    [][\A t \in Tasks :
          (SetStep(t) /\ call[t].new.hard > SetTarget(t).hard)
              => (ret'[t] = "EPERM" /\ limits' = limits)]_vars
\* a set was refused with EPERM while another task was waiting for the same lock
C2_Witness ==
    \E t, u \in Tasks, p \in Pids, k \in Kinds :
        /\ t # u
        /\ ret[t] = "EPERM"
        /\ lastset[p][k].hard > limits[p][k].hard
        /\ pc[u] = "set_lock" /\ call[u].proc = p /\ call[u].kind = k

\* C3 as claimed: a set whose new value has soft > hard returns EINVAL and leaves
\* the table as it was.
C3_Original ==
    [][\A t \in Tasks :
          (SetStep(t) /\ call[t].new.soft > call[t].new.hard)
              => (ret'[t] = "EINVAL" /\ limits' = limits)]_vars
\* C3 amended: a set whose new value has soft > hard is refused and leaves the
\* table as it was; the error is EPERM when the new hard bound is above the
\* stored hard bound (that test comes first), EINVAL otherwise.
C3_SoftAboveHardRejected ==
    [][\A t \in Tasks :
          (SetStep(t) /\ call[t].new.soft > call[t].new.hard)
              => /\ limits' = limits
                 /\ ret'[t] = IF call[t].new.hard > SetTarget(t).hard
                              THEN "EPERM" ELSE "EINVAL"]_vars
\* a set with soft > hard was refused with EINVAL
C3_Witness ==
    \E t \in Tasks, p \in Pids, k \in Kinds :
        /\ ret[t] = "EINVAL"
        /\ pc[t] = "idle"
        /\ lastset[p][k].soft > lastset[p][k].hard
        /\ lastset[p][k].hard <= limits[p][k].hard

\* C4 as claimed: no entry point panics; every call ends in success or in one
\* typed errno failure.
C4_NoPanic ==
    /\ fs.res.ret # "PANIC"
    /\ \A t \in Tasks : ret[t] # "PANIC"

StatFamily == {"stat", "fstat", "lstat", "fstatat", "statx", "statfs"}
\* the outcome of the stat-family call with arguments a
StatRes(a) ==
    CASE a.sys = "stat" -> sys_stat_res(a.path, a.buf)
      [] a.sys = "fstat" -> sys_fstat_res(a.dirfd, a.buf)
      [] a.sys = "lstat" -> sys_lstat_res(a.path, a.buf)
      [] a.sys = "fstatat" -> sys_fstatat_res(a.dirfd, a.path, a.buf, a.flags)
      [] a.sys = "statx" -> sys_statx_res(a.dirfd, a.path, a.flags, a.buf)
      [] a.sys = "statfs" -> sys_statfs_res(a.path, a.buf)

\* C5 as claimed: a stat-family call whose output buffer is unmapped fails with
\* EFAULT and stores nothing through the address.
C5_Original ==
    (fs.args.sys \in StatFamily /\ fs.args.buf = "unmapped")
        => (fs.res.ret = "EFAULT" /\ ~fs.res.wrote)
\* C5 amended: a stat-family call whose output buffer is unmapped never succeeds
\* and stores nothing through the address; it fails with EFAULT when the same
\* call with an accessible buffer succeeds, and with the error of the earlier
\* step (string read, path resolution, descriptor lookup, open) otherwise.
C5_UnmappedBuffer ==
    (fs.args.sys \in StatFamily /\ fs.args.buf = "unmapped")
        => /\ ~fs.res.wrote
           /\ fs.res.ret # "OK"
           /\ LET ok == StatRes([fs.args EXCEPT !.buf = "ok"])
              IN  fs.res.ret = IF ok.ret = "OK" THEN "EFAULT" ELSE ok.ret
\* a stat-family call got as far as the store and failed there
C5_Witness ==
    /\ fs.args.sys \in StatFamily
    /\ fs.args.buf = "unmapped"
    /\ fs.res.ret = "EFAULT"
    /\ fs.res.opened

\* the path argument is absent or the empty string
EmptyPath(a) == a.path.state = "null" \/ (a.path.state = "ok" /\ a.path.str = "")

\* C6: sys_fstatat and sys_statx with an empty or absent path and AT_EMPTY_PATH
\* unset fail with ENOENT for every dirfd, without a descriptor lookup.
C6_EmptyPathNoFlag ==
    (/\ fs.args.sys \in {"fstatat", "statx"}
     /\ EmptyPath(fs.args)
     /\ ~has_bit(fs.args.flags, AT_EMPTY_PATH))
        => (fs.res.ret = "ENOENT" /\ ~fs.res.looked)
\* the case with a closed descriptor
C6_Witness ==
    /\ fs.args.sys \in {"fstatat", "statx"}
    /\ EmptyPath(fs.args)
    /\ ~has_bit(fs.args.flags, AT_EMPTY_PATH)
    /\ fd_path(fs.args.dirfd) = "none" /\ fs.args.dirfd # AT_FDCWD
    /\ fs.res.ret = "ENOENT"

\* at least one requested bit is among the owner bits
Granted(mode, perm) == \E b \in {R_OK, W_OK, X_OK} : has_bit(mode, b) /\ has_bit(perm, b)

\* C7 as claimed: sys_faccessat2 with a mode of R/W/X bits on a path that opens
\* succeeds exactly when an owner bit grants a requested bit, and fails with
\* EACCES when none does.
C7_AnyBitGranted ==
    (fs.args.sys = "faccessat2" /\ fs.args.mode \in 1..7 /\ fs.res.opened)
        => /\ (fs.res.ret = "OK") <=> Granted(fs.args.mode, fs.args.perm)
           /\ ~Granted(fs.args.mode, fs.args.perm) => fs.res.ret = "EACCES"

\* C8 as claimed: sys_access and sys_faccessat2 with mode 0 succeed for every
\* path argument, dirfd and flags, and resolve nothing.
C8_Original ==
    (fs.args.sys \in {"access", "faccessat2"} /\ fs.args.mode = 0)
        => (fs.res.ret = "OK" /\ ~fs.res.resolved /\ ~fs.res.opened)
\* C8 amended: with mode 0 the two calls resolve nothing and succeed for every
\* dirfd and flags whenever the path argument is null or a readable string; a path
\* pointer that cannot be read as a string fails with the pointer's error.
C8_ModeZero ==
    (fs.args.sys \in {"access", "faccessat2"} /\ fs.args.mode = 0)
        => /\ ~fs.res.resolved /\ ~fs.res.opened /\ ~fs.res.looked
           /\ fs.res.ret = CASE fs.args.path.state \in {"null", "ok"} -> "OK"
                             [] fs.args.path.state = "badutf" -> "EILSEQ"
                             [] OTHER -> "EFAULT"
\* mode 0 on a missing entry succeeded
C8_Witness ==
    /\ fs.args.sys \in {"access", "faccessat2"}
    /\ fs.args.mode = 0
    /\ fs.args.path = [state |-> "ok", str |-> "/none"]
    /\ fs.res.ret = "OK"

\* C9 as claimed: when sys_prlimit64 has both an output slot and a new value, the
\* pair in the output slot is the bound its set replaces: in the set, with the
\* lock held, the stored bound is still the pair that was written out.
C9_OldIsReplaced ==
    \A t \in Tasks :
        (pc[t] = "set_store" /\ call[t].sys = "prlimit64" /\ ~is_null(call[t].oldp))
            => out[t] = SetTarget(t)

\* task t's get stores a value into its output slot in this step
GetStep(t) == pc[t] \in {"get_read", "pr_get"} /\ out'[t] # NoLimit

\* C10 as claimed: a get that follows a set of value v on the same process and
\* kind, no other set in between, returns exactly v.
C10_Original ==
    [][\A t \in Tasks :
          (GetStep(t) /\ lastset[call[t].proc][call[t].kind] # NoLimit)
              => out'[t] = lastset[call[t].proc][call[t].kind]]_vars
\* C10 amended: a get that follows an accepted set of value v on the same process
\* and kind, no other accepted set in between, returns exactly v; a refused set
\* changes nothing, the get after it returns the bound stored before.
C10_RoundTrip ==
    [][\A t \in Tasks :
          (GetStep(t) /\ lastok[call[t].proc][call[t].kind] # NoLimit)
              => out'[t] = lastok[call[t].proc][call[t].kind]]_vars
\* a get returned the value of the latest accepted set, soft below hard, after a
\* later set had been refused
C10_Witness ==
    \E t \in Tasks, p \in Pids, k \in Kinds :
        /\ ret[t] = "OK"
        /\ out[t] # NoLimit
        /\ out[t] = lastok[p][k]
        /\ out[t].soft < out[t].hard
        /\ lastset[p][k] # lastok[p][k]
        /\ limits[p][k] = lastok[p][k]
====
